---- MODULE Spec2Model ----
(***************************************************************************)
(* Model of extract_street_data.py: the geocoding retry loop, the spatial  *)
(* filter, and the SVG rasterizer with its fallback to the HTML export.    *)
(*                                                                         *)
(* Numbers.  Dataset coordinates are exact rationals.  A GeoDataFrame is   *)
(* a record [unit, rows]: every coordinate stored in rows is an integer    *)
(* count of 1/unit, so the real coordinate is stored/unit.  A dataset as   *)
(* read from disk has unit 1.  SVG coordinates and the scale are rationals *)
(* <<numerator, denominator>> in lowest terms.  Floating-point rounding is *)
(* not modelled.                                                           *)
(***************************************************************************)
EXTENDS Integers, Sequences, FiniteSets, TLC

\* ---- bounds of the model ------------------------------------------------
\* largest coordinate used by the line features of the catalogue
MaxCoord == 2
\* largest number of features in the dataset on disk
MaxFeatures == 2

\* ---- program constants --------------------------------------------------
\* for i in range(3)
MaxAttempts == 3
svg_width == 1000
svg_height == 1000
margin == 40
\* move_ratio = 0.2 = move_ratio_num / move_ratio_den
move_ratio_num == 1
move_ratio_den == 5

\* ---- arithmetic helpers -------------------------------------------------
\* F applied to the value of v, v evaluated once
Bind(v, F(_)) == CHOOSE r \in {F(x) : x \in {v}} : TRUE

Bind2(v, w, F(_, _)) == CHOOSE r \in {F(x, y) : x \in {v}, y \in {w}} : TRUE

Bind3(u, v, w, F(_, _, _)) ==
    CHOOSE r \in {F(x, y, z) : x \in {u}, y \in {v}, z \in {w}} : TRUE

Abs(n) == IF n < 0 THEN -n ELSE n

Sgn(n) == IF n < 0 THEN -1 ELSE IF n > 0 THEN 1 ELSE 0

RECURSIVE GcdNat(_, _)
GcdNat(a, b) == IF b = 0 THEN a ELSE Bind(a % b, LAMBDA r : GcdNat(b, r))

Gcd(a, b) == Bind2(Abs(a), Abs(b), LAMBDA x, y : GcdNat(x, y))

Lcm(a, b) == Bind2(a, b, LAMBDA x, y : (x \div Gcd(x, y)) * y)

\* the rational n/d in lowest terms, as <<numerator, denominator>>
Rat(n, d) ==
    Bind3(n, d, Gcd(n, d), LAMBDA x, y, g :
        IF y < 0 THEN <<(-x) \div g, (-y) \div g>> ELSE <<x \div g, y \div g>>)

RatLeq(a, b) == a[1] * b[2] <= b[1] * a[2]

RatMin(a, b) == Bind2(a, b, LAMBDA x, y : IF RatLeq(x, y) THEN x ELSE y)

RatMax(a, b) == Bind2(a, b, LAMBDA x, y : IF RatLeq(x, y) THEN y ELSE x)

RatAddInt(a, n) == Bind(a, LAMBDA x : Rat(x[1] + n * x[2], x[2]))

RECURSIVE SumTo(_, _)
SumTo(s, n) == IF n = 0 THEN 0 ELSE s[n] + SumTo(s, n - 1)

SumSeq(s) == Bind(s, LAMBDA t : SumTo(t, Len(t)))

RECURSIVE LcmTo(_, _)
LcmTo(s, n) ==
    IF n = 0 THEN 1 ELSE Bind(LcmTo(s, n - 1), LAMBDA l : Lcm(s[n], l))

LcmSeq(s) == Bind(s, LAMBDA t : LcmTo(t, Len(t)))

RECURSIVE FlatTo(_, _)
FlatTo(ss, n) == IF n = 0 THEN <<>> ELSE FlatTo(ss, n - 1) \o ss[n]

Flatten(ss) == Bind(ss, LAMBDA t : FlatTo(t, Len(t)))

SetMin(S) == Bind(S, LAMBDA T : CHOOSE x \in T : \A y \in T : x <= y)

SetMax(S) == Bind(S, LAMBDA T : CHOOSE x \in T : \A y \in T : y <= x)

\* ---- geometry -----------------------------------------------------------
\* A point is <<x, y>>.  A part is [coords, holes]: the coordinate sequence
\* of a line or of a polygon's exterior ring, and the polygon's interior
\* rings.  A feature (a row of the frame) is [id, type, parts]: id is the
\* row's index label, type the shapely geometry type name.
Part(coords, holes) == [coords |-> coords, holes |-> holes]

Feature(id, type, parts) == [id |-> id, type |-> type, parts |-> parts]

\* closed counter-clockwise ring of the rectangle [x0,x1] x [y0,y1]
Rect(x0, y0, x1, y1) ==
    << <<x0, y0>>, <<x1, y0>>, <<x1, y1>>, <<x0, y1>>, <<x0, y0>> >>

IsPolygonal(type) == type \in {"Polygon", "MultiPolygon"}

IsLineal(type) == type \in {"LineString", "MultiLineString"}

\* every coordinate sequence of a part: the coords, then each hole
PartRings(p) == <<p.coords>> \o p.holes

PartPoints(p) ==
    Bind(PartRings(p), LAMBDA rs :
        UNION {{rs[k][i] : i \in 1..Len(rs[k])} : k \in 1..Len(rs)})

GeomPoints(f) ==
    Bind(f.parts, LAMBDA ps : UNION {PartPoints(ps[k]) : k \in 1..Len(ps)})

RowsPoints(rows) ==
    Bind(rows, LAMBDA rs : UNION {GeomPoints(rs[k]) : k \in 1..Len(rs)})

\* ---- shapely predicates and measures ------------------------------------
Dot(u, v) == u[1] * v[1] + u[2] * v[2]

Sub(u, v) == <<u[1] - v[1], u[2] - v[2]>>

Cross(u, v) == u[1] * v[2] - u[2] * v[1]

\* The search region: point.buffer(r), a disc given by its centre and its
\* squared radius (the polygonal approximation of the circle is idealised).
Buffer(center, r2) == [center |-> center, r2 |-> r2]

\* squared distance from the region's centre to the segment p-q is at most r2
SegmentHits(p, q, region) ==
    Bind3(Sub(q, p), Sub(region.center, p), Sub(region.center, q),
          LAMBDA d, w, v :
            Bind2(Dot(d, d), Dot(w, d), LAMBDA dd, t :
                IF dd = 0 \/ t <= 0 THEN Dot(w, w) <= region.r2
                ELSE IF t >= dd THEN Dot(v, v) <= region.r2
                ELSE Dot(w, w) * dd - t * t <= region.r2 * dd))

CoordsHit(coords, region) ==
    \/ Len(coords) = 1 /\ SegmentHits(coords[1], coords[1], region)
    \/ \E i \in 1..(Len(coords) - 1) : SegmentHits(coords[i], coords[i + 1], region)

\* twice the signed area of a closed ring
RingArea2(r) ==
    SumSeq([i \in 1..(Len(r) - 1) |-> Cross(r[i], r[i + 1])])

\* c lies in the closed (strict = FALSE) or open (strict = TRUE) region
\* bounded by a convex ring
InRing(r, c, strict) ==
    Bind(Sgn(RingArea2(r)), LAMBDA o :
        \A i \in 1..(Len(r) - 1) :
            Bind(o * Cross(Sub(r[i + 1], r[i]), Sub(c, r[i])), LAMBDA k :
                IF strict THEN k > 0 ELSE k >= 0))

PartIntersects(type, p, region) ==
    IF IsPolygonal(type)
    THEN \/ \E k \in 1..(1 + Len(p.holes)) : CoordsHit(PartRings(p)[k], region)
         \/ /\ InRing(p.coords, region.center, FALSE)
            /\ \A h \in 1..Len(p.holes) : ~InRing(p.holes[h], region.center, TRUE)
    ELSE CoordsHit(p.coords, region)

\* geometry.intersects(buffer): an empty geometry intersects nothing
Intersects(f, region) ==
    \E k \in 1..Len(f.parts) : PartIntersects(f.type, f.parts[k], region)

\* Euclidean length of a segment; the catalogue keeps it an integer
SegLen(p, q) ==
    Bind(Dot(Sub(q, p), Sub(q, p)), LAMBDA n2 : CHOOSE n \in 0..n2 : n * n = n2)

\* length-weighted sums of a coordinate sequence: <<sum len*(x_i + x_j),
\* sum len*(y_i + y_j), sum len>>
LineMoments(coords) ==
    Bind([i \in 1..(Len(coords) - 1) |-> SegLen(coords[i], coords[i + 1])],
         LAMBDA seg :
            << SumSeq([i \in 1..Len(seg) |-> seg[i] * (coords[i][1] + coords[i + 1][1])]),
               SumSeq([i \in 1..Len(seg) |-> seg[i] * (coords[i][2] + coords[i + 1][2])]),
               SumSeq(seg) >>)

\* area-weighted sums of a ring, oriented positively: <<6A*cx, 6A*cy, 2A>>
RingMoments(r) ==
    Bind([i \in 1..(Len(r) - 1) |-> Cross(r[i], r[i + 1])], LAMBDA cr :
        Bind(Sgn(SumSeq(cr)), LAMBDA o :
            << o * SumSeq([i \in 1..Len(cr) |-> (r[i][1] + r[i + 1][1]) * cr[i]]),
               o * SumSeq([i \in 1..Len(cr) |-> (r[i][2] + r[i + 1][2]) * cr[i]]),
               o * SumSeq(cr) >>))

\* the exterior's moments less those of the holes
PolygonMoments(p) ==
    Bind2(RingMoments(p.coords),
          [h \in 1..Len(p.holes) |-> RingMoments(p.holes[h])],
          LAMBDA e, hs :
            << e[1] - SumSeq([h \in 1..Len(hs) |-> hs[h][1]]),
               e[2] - SumSeq([h \in 1..Len(hs) |-> hs[h][2]]),
               e[3] - SumSeq([h \in 1..Len(hs) |-> hs[h][3]]) >>)

PartMoments(type, p) ==
    IF IsPolygonal(type) THEN PolygonMoments(p) ELSE LineMoments(p.coords)

\* geom.centroid as <<nx, ny, d>>, the point (nx/d, ny/d): the area centroid
\* of a polygonal geometry, the length centroid of a lineal one
Centroid(f) ==
    Bind([k \in 1..Len(f.parts) |-> PartMoments(f.type, f.parts[k])], LAMBDA ms :
        Bind3(SumSeq([k \in 1..Len(ms) |-> ms[k][1]]),
              SumSeq([k \in 1..Len(ms) |-> ms[k][2]]),
              (IF IsPolygonal(f.type) THEN 3 ELSE 2) * SumSeq([k \in 1..Len(ms) |-> ms[k][3]]),
              LAMBDA sx, sy, d :
                Bind(Gcd(Gcd(sx, sy), d), LAMBDA g : <<sx \div g, sy \div g, d \div g>>)))

\* every coordinate (x, y) of the feature replaced by
\* ((a*x + bx) / d, (a*y + by) / d); the callers keep the divisions exact
AffineCoords(f, a, bx, by, d) ==
    Bind(f, LAMBDA g :
        [g EXCEPT !.parts =
           [k \in 1..Len(g.parts) |->
              Part([i \in 1..Len(g.parts[k].coords) |->
                      << (a * g.parts[k].coords[i][1] + bx) \div d,
                         (a * g.parts[k].coords[i][2] + by) \div d >>],
                   [h \in 1..Len(g.parts[k].holes) |->
                      [i \in 1..Len(g.parts[k].holes[h]) |->
                         << (a * g.parts[k].holes[h][i][1] + bx) \div d,
                            (a * g.parts[k].holes[h][i][2] + by) \div d >>]])]])

\* translate(geom, xoff, yoff), offsets in the units of the coordinates
Translate(f, xoff, yoff) ==
    Bind2(xoff, yoff, LAMBDA dx, dy : AffineCoords(f, 1, dx, dy, 1))

\* the same frame in units of 1/(unit * k)
Rescale(gdf, k) ==
    Bind2(gdf, k, LAMBDA g, n :
        [unit |-> g.unit * n,
         rows |-> [i \in 1..Len(g.rows) |-> AffineCoords(g.rows[i], n, 0, 0, 1)]])

\* the largest divisor of the unit that divides every coordinate
CommonDivisor(gdf) ==
    Bind2(gdf.unit, RowsPoints(gdf.rows), LAMBDA u, pts :
        SetMax({d \in 1..u :
                  /\ u % d = 0
                  /\ \A p \in pts : p[1] % d = 0 /\ p[2] % d = 0}))

\* the same frame with the smallest unit that keeps every coordinate whole
Normalize(gdf) ==
    Bind2(gdf, CommonDivisor(gdf), LAMBDA g, n :
        [unit |-> g.unit \div n,
         rows |-> [i \in 1..Len(g.rows) |-> AffineCoords(g.rows[i], 1, 0, 0, n)]])

\* ---- the datasets the model reads ---------------------------------------
LineOf(p, q) == <<Part(<<p, q>>, <<>>)>>

\* the geometries a shapefile row may hold (id 0: not yet a row)
Catalogue ==
    << Feature(0, "Point", <<Part(<< <<1, 1>> >>, <<>>)>>),
       Feature(0, "LineString", <<Part(<<>>, <<>>)>>),
       Feature(0, "LineString", LineOf(<<0, 0>>, <<MaxCoord, 0>>)),
       Feature(0, "LineString", LineOf(<<1, 0>>, <<1, MaxCoord>>)),
       Feature(0, "LineString", LineOf(<<0, 0>>, <<4, 3>>)),
       Feature(0, "MultiLineString",
               LineOf(<<0, 0>>, <<MaxCoord, 0>>) \o LineOf(<<0, 0>>, <<0, MaxCoord>>)),
       Feature(0, "Polygon", <<Part(Rect(0, 0, 1, 1), <<>>)>>),
       Feature(0, "Polygon", <<Part(Rect(0, 0, 6, 6), <<Rect(1, 1, 5, 5)>>)>>),
       Feature(0, "MultiPolygon",
               <<Part(Rect(0, 0, 1, 1), <<>>), Part(Rect(2, 0, 3, 1), <<>>)>>) >>

\* gpd.read_file: rows in file order, labelled 1..n, coordinates in unit 1
Frame(geoms) ==
    [unit |-> 1,
     rows |-> [i \in 1..Len(geoms) |-> [geoms[i] EXCEPT !.id = i]]]

\* the files: up to MaxFeatures catalogue geometries, in catalogue order
\* (a geometry may repeat)
Datasets ==
    LET picks == UNION {[1..n -> 1..Len(Catalogue)] : n \in 0..MaxFeatures}
        sorted(s) == \A i \in 1..(Len(s) - 1) : s[i] <= s[i + 1]
    IN  {Frame([i \in 1..Len(s) |-> Catalogue[s[i]]]) : s \in {t \in picks : sorted(t)}}

\* points the geocoder (or the projection of its answer) may return
Locations == {<<0, 0>>, <<3, 3>>}

\* squared buffer radii, in the units of the dataset's CRS
Radii2 == {1, 100}

DataTypes == {"traffic", "pedestrian"}

OutputFormats == {"1", "2", "3"}

NoFrame == [unit |-> 0, rows |-> <<>>]

NoPoint == <<>>

NoBuffer == [center |-> NoPoint, r2 |-> 0]

\* ---- extract_street_data ------------------------------------------------
\* variant: the loop test lets one attempt too many through
RetryAllowedOffByOne(n) == n <= MaxAttempts

\* for i in range(3): another geocoding attempt is made after n attempts
RetryAllowed(n) == n < MaxAttempts

\* variant: the selected rows come back in reverse order
SpatialFilterReversed(gdf, region) ==
    Bind(SelectSeq(gdf.rows, LAMBDA f : Intersects(f, region)), LAMBDA hit :
        [gdf EXCEPT !.rows = [i \in 1..Len(hit) |-> hit[Len(hit) + 1 - i]]])

\* gdf[gdf.geometry.intersects(buffer)]
\* the rows whose mask entry is true, in the frame's order
SpatialFilter(gdf, region) ==
    [gdf EXCEPT !.rows = SelectSeq(gdf.rows, LAMBDA f : Intersects(f, region))]

\* ---- export_to_svg ------------------------------------------------------
\* variant: points are kept as if they could be drawn
ValidTypesWithPoint ==
    {"Point", "LineString", "MultiLineString", "Polygon", "MultiPolygon"}

ValidTypes == {"LineString", "MultiLineString", "Polygon", "MultiPolygon"}

\* gdf[gdf.geometry.type.isin([...])]
KeepValidTypes(gdf) ==
    [gdf EXCEPT !.rows = SelectSeq(gdf.rows, LAMBDA f : f.type \in ValidTypes)]

IsEmpty(gdf) == Len(gdf.rows) = 0

\* gdf.total_bounds: <<minx, miny, maxx, maxy>> in the frame's units
TotalBounds(gdf) ==
    Bind(RowsPoints(gdf.rows), LAMBDA pts :
        << SetMin({p[1] : p \in pts}), SetMin({p[2] : p \in pts}),
           SetMax({p[1] : p \in pts}), SetMax({p[2] : p \in pts}) >>)

Width(b) == b[3] - b[1]

Height(b) == b[4] - b[2]

\* if width == 0 or height == 0
TooSmall(b) == Width(b) = 0 \/ Height(b) = 0

\* variant: the larger of the two axis scales
ScaleForMax(b, unit) ==
    Bind2(Rat((svg_width - 2 * margin) * unit, Width(b)),
          Rat((svg_height - 2 * margin) * unit, Height(b)),
          LAMBDA scale_x, scale_y : RatMax(scale_x, scale_y))

\* scale = min(scale_x, scale_y), with width and height counted in 1/unit
ScaleFor(b, unit) ==
    Bind2(Rat((svg_width - 2 * margin) * unit, Width(b)),
          Rat((svg_height - 2 * margin) * unit, Height(b)),
          LAMBDA scale_x, scale_y : RatMin(scale_x, scale_y))

\* whether the block-spacing shift is applied
SpacingApplies(type) == type = "pedestrian"

\* centroids = [geom.centroid for geom in gdf.geometry]
Centroids(gdf) == [i \in 1..Len(gdf.rows) |-> Centroid(gdf.rows[i])]

\* np.mean of the centroids: with the centroids cs brought to the common
\* denominator L, <<sum of x, sum of y>> is n times the global centroid in
\* units of 1/L
CentroidSum(cs, L) ==
    << SumSeq([i \in 1..Len(cs) |-> cs[i][1] * (L \div cs[i][3])]),
       SumSeq([i \in 1..Len(cs) |-> cs[i][2] * (L \div cs[i][3])]) >>

\* (dx * move_ratio, dy * move_ratio) for each row, in units of
\* 1/(n * L * move_ratio_den)
SpreadOffsets(cs, L, g) ==
    [i \in 1..Len(cs) |->
       << (Len(cs) * cs[i][1] * (L \div cs[i][3]) - g[1]) * move_ratio_num,
          (Len(cs) * cs[i][2] * (L \div cs[i][3]) - g[2]) * move_ratio_num >>]

\* the pedestrian branch: every geometry translated by
\* (centroid - mean of centroids) * move_ratio
SpreadBlocks(gdf) ==
    Bind(Centroids(gdf), LAMBDA cs :
        Bind(LcmSeq([i \in 1..Len(cs) |-> cs[i][3]]), LAMBDA L :
            Bind2(SpreadOffsets(cs, L, CentroidSum(cs, L)),
                  Rescale(gdf, Len(cs) * L * move_ratio_den),
                  LAMBDA off, big :
                    Normalize([big EXCEPT !.rows =
                        [i \in 1..Len(cs) |->
                           Translate(big.rows[i], off[i][1], off[i][2])]]))))

\* variant: the Y axis is not flipped
transform_coords_unflipped(p, minx, maxy, scale, unit) ==
    << RatAddInt(Rat((p[1] - minx) * scale[1], unit * scale[2]), margin),
       RatAddInt(Rat((p[2] - maxy) * scale[1], unit * scale[2]), margin) >>

\* transform_coords(x, y) with the closure's minx, maxy and scale
transform_coords(p, minx, maxy, scale, unit) ==
    << RatAddInt(Rat((p[1] - minx) * scale[1], unit * scale[2]), margin),
       RatAddInt(Rat((maxy - p[2]) * scale[1], unit * scale[2]), margin) >>

Polyline(coords, minx, maxy, scale, unit) ==
    [i \in 1..Len(coords) |-> transform_coords(coords[i], minx, maxy, scale, unit)]

\* variant: the interior rings are drawn too
DrawnRingsWithHoles(p) == PartRings(p)

\* the rings of a polygon part that are drawn
DrawnRings(p) == <<p.coords>>

\* the polylines a lineal row adds: one per part with more than one point
LinePolylines(f, minx, maxy, scale, unit) ==
    Flatten([k \in 1..Len(f.parts) |->
               IF Len(f.parts[k].coords) > 1
               THEN <<Polyline(f.parts[k].coords, minx, maxy, scale, unit)>>
               ELSE <<>>])

\* the polylines a polygonal row adds: the drawn rings of each part
PolygonPolylines(f, minx, maxy, scale, unit) ==
    Flatten([k \in 1..Len(f.parts) |->
               [j \in 1..Len(DrawnRings(f.parts[k])) |->
                  Polyline(DrawnRings(f.parts[k])[j], minx, maxy, scale, unit)]])

\* one iteration of the drawing loop: the polylines added for a row
RowPolylines(f, minx, maxy, scale, unit) ==
    IF IsLineal(f.type) THEN LinePolylines(f, minx, maxy, scale, unit)
    ELSE IF IsPolygonal(f.type) THEN PolygonPolylines(f, minx, maxy, scale, unit)
    ELSE <<>>

\* ---- state --------------------------------------------------------------
VARIABLES
    pc,             \* position of main / extract_street_data / export_to_svg
    source,         \* the shapefile on disk selected by data_type
    data_type,      \* 'traffic' or 'pedestrian'
    output_format,  \* '1' HTML, '2' SVG, '3' both
    radius2,        \* squared buffer radius derived from radius_miles
    gdf,            \* extract_street_data: the frame read from disk
    attempts,       \* extract_street_data: geolocator.geocode calls made
    location,       \* extract_street_data: last geocoding answer
    buffer,         \* extract_street_data: the search region
    data,           \* main: the frame extract_street_data returned
    svg_gdf,        \* export_to_svg: its local variable gdf
    bounds,         \* export_to_svg: minx, miny, maxx, maxy
    scale,          \* export_to_svg: scale
    idx,            \* export_to_svg: rows drawn so far
    dwg,            \* export_to_svg: polylines added to the drawing
    svg_file,       \* polylines of the saved SVG file, if svg_saved
    svg_saved,      \* dwg.save() has written the file
    svg_return,     \* how the last export_to_svg call ended
    raised_at,      \* export_to_svg: pc at which the try block raised
    html_calls,     \* export_to_html calls: who called, with which frame
    error           \* the exception main caught

vars == <<pc, source, data_type, output_format, radius2, gdf, attempts,
          location, buffer, data, svg_gdf, bounds, scale, idx, dwg,
          svg_file, svg_saved, svg_return, raised_at, html_calls, error>>

extract_vars == <<gdf, attempts, location, buffer>>

svg_vars == <<svg_gdf, bounds, scale, idx, dwg, svg_file, svg_saved,
              svg_return, raised_at>>

input_vars == <<source, data_type, output_format, radius2>>

NoBounds == <<>>

NoScale == <<>>

\* the state of one iteration of main's loop before get_user_input returns
Fresh ==
    /\ pc = "input"
    /\ data_type = "traffic"
    /\ output_format = "1"
    /\ radius2 = 0
    /\ gdf = NoFrame
    /\ attempts = 0
    /\ location = NoPoint
    /\ buffer = NoBuffer
    /\ data = NoFrame
    /\ svg_gdf = NoFrame
    /\ bounds = NoBounds
    /\ scale = NoScale
    /\ idx = 0
    /\ dwg = <<>>
    /\ svg_file = <<>>
    /\ svg_saved = FALSE
    /\ svg_return = "none"
    /\ raised_at = "none"
    /\ html_calls = <<>>
    /\ error = "none"

Init == source \in Datasets /\ Fresh

\* ---- main and extract_street_data ---------------------------------------
\* get_user_input, and the call of extract_street_data
GetUserInput ==
    /\ pc = "input"
    /\ data_type' \in DataTypes
    /\ output_format' \in OutputFormats
    /\ radius2' \in Radii2
    /\ pc' = "extract"
    /\ UNCHANGED <<source, data, html_calls, error>>
    /\ UNCHANGED extract_vars
    /\ UNCHANGED svg_vars

\* os.path.exists(data_path) is false: FileNotFoundError
MissingFile ==
    /\ pc = "extract"
    /\ pc' = "except"
    /\ error' = "FileNotFoundError"
    /\ UNCHANGED <<data, html_calls>>
    /\ UNCHANGED input_vars
    /\ UNCHANGED extract_vars
    /\ UNCHANGED svg_vars

\* gdf = gpd.read_file(data_path)
ReadFile ==
    /\ pc = "extract"
    /\ gdf' = source
    /\ pc' = "geocode"
    /\ UNCHANGED <<attempts, location, buffer, data, html_calls, error>>
    /\ UNCHANGED input_vars
    /\ UNCHANGED svg_vars

\* one iteration of the retry loop: the geocoder answers a location,
\* answers None, or raises (location = None)
Geocode ==
    /\ pc = "geocode"
    /\ location = NoPoint
    /\ RetryAllowed(attempts)
    /\ attempts' = attempts + 1
    /\ \E answer \in Locations \cup {NoPoint} : location' = answer
    /\ UNCHANGED <<pc, gdf, buffer, data, html_calls, error>>
    /\ UNCHANGED input_vars
    /\ UNCHANGED svg_vars

LoopDone == location # NoPoint \/ ~RetryAllowed(attempts)

\* if location is None: raise ValueError
AddressNotFound ==
    /\ pc = "geocode"
    /\ LoopDone
    /\ location = NoPoint
    /\ pc' = "except"
    /\ error' = "ValueError"
    /\ UNCHANGED <<data, html_calls>>
    /\ UNCHANGED input_vars
    /\ UNCHANGED extract_vars
    /\ UNCHANGED svg_vars

\* the buffer around the point (geographic CRS) or around its projection
\* (projected CRS: the transformer's answer is any point of the CRS)
BuildBuffer ==
    /\ pc = "geocode"
    /\ LoopDone
    /\ location # NoPoint
    /\ \E geographic \in BOOLEAN :
         \E center \in (IF geographic THEN {location} ELSE Locations) :
            buffer' = Buffer(center, radius2)
    /\ pc' = "filter"
    /\ UNCHANGED <<gdf, attempts, location, data, html_calls, error>>
    /\ UNCHANGED input_vars
    /\ UNCHANGED svg_vars

\* result = gdf[gdf.geometry.intersects(buffer)]; return result
Filter ==
    /\ pc = "filter"
    /\ data' = SpatialFilter(gdf, buffer)
    /\ pc' = "extracted"
    /\ UNCHANGED <<html_calls, error>>
    /\ UNCHANGED input_vars
    /\ UNCHANGED extract_vars
    /\ UNCHANGED svg_vars

\* extract_street_data has returned: its locals are gone
ExtractReturns ==
    /\ gdf' = NoFrame
    /\ attempts' = 0
    /\ location' = NoPoint
    /\ buffer' = NoBuffer

WantsHtml == output_format \in {"1", "3"}

WantsSvg == output_format \in {"2", "3"}

\* if data.empty: print(...)
NoData ==
    /\ pc = "extracted"
    /\ IsEmpty(data)
    /\ pc' = "ask"
    /\ UNCHANGED <<data, html_calls, error>>
    /\ UNCHANGED input_vars
    /\ ExtractReturns
    /\ UNCHANGED svg_vars

\* export_to_html(gdf, path) called by `by`: the map is written, or the
\* export raises
ExportToHtml(by, frame, next) ==
    /\ html_calls' = Append(html_calls, [by |-> by, gdf |-> frame])
    /\ \E ok \in BOOLEAN :
         IF ok THEN pc' = next /\ error' = error
         ELSE pc' = "except" /\ error' = "HtmlError"

\* if output_format in ['1', '3']: export_to_html(data, html_path)
MainHtml ==
    /\ pc = "extracted"
    /\ ~IsEmpty(data)
    /\ WantsHtml
    /\ ExportToHtml("main", data, IF WantsSvg THEN "svg_call" ELSE "ask")
    /\ UNCHANGED data
    /\ UNCHANGED input_vars
    /\ ExtractReturns
    /\ UNCHANGED svg_vars

\* output format 2: the HTML export is skipped
SkipHtml ==
    /\ pc = "extracted"
    /\ ~IsEmpty(data)
    /\ ~WantsHtml
    /\ pc' = "svg_call"
    /\ UNCHANGED <<data, html_calls, error>>
    /\ UNCHANGED input_vars
    /\ ExtractReturns
    /\ UNCHANGED svg_vars

\* ---- export_to_svg, step by step ----------------------------------------
\* if output_format in ['2', '3']: export_to_svg(data, svg_path, data_type)
SvgCall ==
    /\ pc = "svg_call"
    /\ svg_gdf' = data
    /\ pc' = "svg_types"
    /\ UNCHANGED <<bounds, scale, idx, dwg, svg_file, svg_saved, svg_return,
                   raised_at>>
    /\ UNCHANGED <<data, html_calls, error>>
    /\ UNCHANGED input_vars
    /\ UNCHANGED extract_vars

\* where the call goes when no valid geometry is left
AfterEmpty == "ask"

\* keep the valid geometry types; return if nothing is left
SvgKeepValid ==
    /\ pc = "svg_types"
    /\ svg_gdf' = KeepValidTypes(svg_gdf)
    /\ IF IsEmpty(svg_gdf')
       THEN pc' = AfterEmpty /\ svg_return' = "nothing"
       ELSE pc' = "svg_bounds" /\ svg_return' = svg_return
    /\ UNCHANGED <<bounds, scale, idx, dwg, svg_file, svg_saved, raised_at>>
    /\ UNCHANGED <<data, html_calls, error>>
    /\ UNCHANGED input_vars
    /\ UNCHANGED extract_vars

\* the bounding box; return if its width or height is zero
SvgBounds ==
    /\ pc = "svg_bounds"
    /\ bounds' = TotalBounds(svg_gdf)
    /\ IF TooSmall(bounds')
       THEN pc' = "ask" /\ svg_return' = "too_small"
       ELSE pc' = "svg_scale" /\ svg_return' = svg_return
    /\ UNCHANGED <<svg_gdf, scale, idx, dwg, svg_file, svg_saved, raised_at>>
    /\ UNCHANGED <<data, html_calls, error>>
    /\ UNCHANGED input_vars
    /\ UNCHANGED extract_vars

\* scale with margin
SvgScale ==
    /\ pc = "svg_scale"
    /\ scale' = ScaleFor(bounds, svg_gdf.unit)
    /\ pc' = IF SpacingApplies(data_type) THEN "svg_spread" ELSE "svg_drawing"
    /\ UNCHANGED <<svg_gdf, bounds, idx, dwg, svg_file, svg_saved, svg_return,
                   raised_at>>
    /\ UNCHANGED <<data, html_calls, error>>
    /\ UNCHANGED input_vars
    /\ UNCHANGED extract_vars

\* variant: the bounds are not recomputed after the shift
BoundsNotRecomputed(before, spread) == before

\* the bounds the drawing uses after the blocks were spread
BoundsAfterSpread(before, spread) == TotalBounds(spread)

\* pedestrian data: shift the blocks, then recompute bounds and scale
SvgSpread ==
    /\ pc = "svg_spread"
    /\ svg_gdf' = SpreadBlocks(svg_gdf)
    /\ bounds' = BoundsAfterSpread(bounds, svg_gdf')
    /\ scale' = ScaleFor(bounds', svg_gdf'.unit)
    /\ pc' = "svg_drawing"
    /\ UNCHANGED <<idx, dwg, svg_file, svg_saved, svg_return, raised_at>>
    /\ UNCHANGED <<data, html_calls, error>>
    /\ UNCHANGED input_vars
    /\ UNCHANGED extract_vars

\* dwg = svgwrite.Drawing(output_path, size=(svg_width, svg_height))
SvgNewDrawing ==
    /\ pc = "svg_drawing"
    /\ dwg' = <<>>
    /\ idx' = 0
    /\ pc' = "svg_draw"
    /\ UNCHANGED <<svg_gdf, bounds, scale, svg_file, svg_saved, svg_return,
                   raised_at>>
    /\ UNCHANGED <<data, html_calls, error>>
    /\ UNCHANGED input_vars
    /\ UNCHANGED extract_vars

\* one iteration of for idx, row in gdf.iterrows()
SvgDrawRow ==
    /\ pc = "svg_draw"
    /\ idx < Len(svg_gdf.rows)
    /\ dwg' = dwg \o RowPolylines(svg_gdf.rows[idx + 1], bounds[1], bounds[4],
                                  scale, svg_gdf.unit)
    /\ idx' = idx + 1
    /\ UNCHANGED <<pc, svg_gdf, bounds, scale, svg_file, svg_saved, svg_return,
                   raised_at>>
    /\ UNCHANGED <<data, html_calls, error>>
    /\ UNCHANGED input_vars
    /\ UNCHANGED extract_vars

\* dwg.save()
SvgSave ==
    /\ pc = "svg_draw"
    /\ idx = Len(svg_gdf.rows)
    /\ svg_file' = dwg
    /\ svg_saved' = TRUE
    /\ svg_return' = "saved"
    /\ pc' = "ask"
    /\ UNCHANGED <<svg_gdf, bounds, scale, idx, dwg, raised_at>>
    /\ UNCHANGED <<data, html_calls, error>>
    /\ UNCHANGED input_vars
    /\ UNCHANGED extract_vars

\* the positions inside the try block
SvgTryPcs ==
    {"svg_types", "svg_bounds", "svg_scale", "svg_spread", "svg_drawing", "svg_draw"}

\* variant: dwg.save() and the drawing loop sit outside the try block
CaughtBeforeDrawing == SvgTryPcs \ {"svg_draw"}

\* positions at which an exception reaches the except clause
CaughtAt == SvgTryPcs

\* the statement about to run raises
SvgRaise ==
    /\ pc \in SvgTryPcs
    /\ raised_at' = pc
    /\ pc' = IF pc \in CaughtAt THEN "svg_except" ELSE "except"
    /\ error' = IF pc \in CaughtAt THEN error ELSE "SvgError"
    /\ UNCHANGED <<svg_gdf, bounds, scale, idx, dwg, svg_file, svg_saved,
                   svg_return>>
    /\ UNCHANGED <<data, html_calls>>
    /\ UNCHANGED input_vars
    /\ UNCHANGED extract_vars

\* the frame the except clause hands to export_to_html: the local gdf
FallbackFrame == svg_gdf

\* except Exception: print the warning, export_to_html(gdf, html_path)
SvgFallback ==
    /\ pc = "svg_except"
    /\ svg_return' = "fallback"
    /\ ExportToHtml("export_to_svg", FallbackFrame, "ask")
    /\ UNCHANGED <<svg_gdf, bounds, scale, idx, dwg, svg_file, svg_saved,
                   raised_at>>
    /\ UNCHANGED data
    /\ UNCHANGED input_vars
    /\ UNCHANGED extract_vars

\* the user asks for another search: the loop starts over
Again ==
    /\ pc \in {"ask", "except"}
    /\ source' = source
    /\ pc' = "input"
    /\ data_type' = "traffic"
    /\ output_format' = "1"
    /\ radius2' = 0
    /\ gdf' = NoFrame
    /\ attempts' = 0
    /\ location' = NoPoint
    /\ buffer' = NoBuffer
    /\ data' = NoFrame
    /\ svg_gdf' = NoFrame
    /\ bounds' = NoBounds
    /\ scale' = NoScale
    /\ idx' = 0
    /\ dwg' = <<>>
    /\ svg_file' = <<>>
    /\ svg_saved' = FALSE
    /\ svg_return' = "none"
    /\ raised_at' = "none"
    /\ html_calls' = <<>>
    /\ error' = "none"

\* the user declines: main returns
Quit ==
    /\ pc \in {"ask", "except"}
    /\ pc' = "quit"
    /\ UNCHANGED <<data, html_calls, error>>
    /\ UNCHANGED input_vars
    /\ UNCHANGED extract_vars
    /\ UNCHANGED svg_vars

Next ==
    \/ GetUserInput
    \/ MissingFile
    \/ ReadFile
    \/ Geocode
    \/ AddressNotFound
    \/ BuildBuffer
    \/ Filter
    \/ NoData
    \/ MainHtml
    \/ SkipHtml
    \/ SvgCall
    \/ SvgKeepValid
    \/ SvgBounds
    \/ SvgScale
    \/ SvgSpread
    \/ SvgNewDrawing
    \/ SvgDrawRow
    \/ SvgSave
    \/ SvgRaise
    \/ SvgFallback
    \/ Again
    \/ Quit

Spec == Init /\ [][Next]_vars

\* ---- properties ---------------------------------------------------------
\* export_to_html calls made by export_to_svg's except clause
FallbackCalls ==
    Cardinality({i \in 1..Len(html_calls) : html_calls[i].by = "export_to_svg"})

\* the last export_to_svg call has ended, and how
SvgEnded == svg_return # "none"

\* the rows of a frame whose geometry is a line, multi-line, polygon or
\* multi-polygon
Drawable(frame) ==
    SelectSeq(frame.rows, LAMBDA f :
        f.type \in {"LineString", "MultiLineString", "Polygon", "MultiPolygon"})

\* the frame has drawable geometry whose bounding box has no width or no
\* height
Degenerate(frame) ==
    Bind(RowsPoints(Drawable(frame)), LAMBDA pts :
        /\ pts # {}
        /\ \/ Cardinality({p[1] : p \in pts}) = 1
           \/ Cardinality({p[2] : p \in pts}) = 1)

C1_Bounded ==
    /\ attempts <= 3
    /\ (pc = "except" /\ error = "ValueError") =>
          /\ attempts = 3
          /\ location = NoPoint
          /\ buffer = NoBuffer
          /\ data = NoFrame
    /\ pc \in {"filter", "extracted"} => location # NoPoint

C1_Step ==
    /\ attempts' # attempts /\ pc = "geocode" =>
          /\ attempts' = attempts + 1
          /\ location = NoPoint
          /\ attempts < 3
    /\ (pc = "geocode" /\ attempts = 3 /\ location = NoPoint) =>
          pc' = "except" /\ error' = "ValueError"
    /\ (pc = "geocode" /\ pc' = "filter") => location # NoPoint /\ attempts' = attempts

\* C1: the geocoder is called at most 3 times per query; an attempt is made
\* only while no location was found and fewer than 3 attempts were made; a
\* location ends the loop; after 3 failed attempts the query ends with
\* ValueError, with no buffer built and nothing filtered
C1_GeocodeRetry == []C1_Bounded /\ [][C1_Step]_vars

C1_Witness == pc = "except" /\ error = "ValueError" /\ attempts = 3

\* C2: the filter's result holds exactly the rows of the source that
\* intersect the region, in the source's order, and an empty result is
\* returned as a value
C2_FilterExact ==
    pc = "extracted" =>
        /\ Len(data.rows) <= Len(gdf.rows)
        /\ \A i \in 1..Len(data.rows) :
              /\ data.rows[i].id \in 1..Len(gdf.rows)
              /\ data.rows[i] = gdf.rows[data.rows[i].id]
              /\ Intersects(data.rows[i], buffer)
        /\ \A i \in 1..(Len(data.rows) - 1) : data.rows[i].id < data.rows[i + 1].id
        /\ \A k \in 1..Len(gdf.rows) :
              Intersects(gdf.rows[k], buffer) =>
                  \E i \in 1..Len(data.rows) : data.rows[i].id = k
        /\ error = "none"

C2_Witness ==
    /\ pc = "extracted"
    /\ Len(gdf.rows) = MaxFeatures
    /\ Len(data.rows) = Len(gdf.rows) - 1

\* C3 (as claimed): a call on geometry with a bounding box of zero width or
\* zero height ends with exactly one fallback export and no SVG file
C3_DegenerateFallsBack ==
    (SvgEnded /\ Degenerate(data)) => FallbackCalls = 1 /\ ~svg_saved

\* C4: an exception raised inside the try block never reaches main: the
\* except clause runs export_to_html exactly once; a call in which nothing
\* raised never runs it
C4_FailuresFallBack ==
    /\ error # "SvgError"
    /\ FallbackCalls <= 1
    /\ (raised_at # "none" /\ pc # "svg_except") =>
          FallbackCalls = 1 /\ svg_return = "fallback" /\ ~svg_saved
    /\ raised_at = "none" => FallbackCalls = 0 /\ svg_return # "fallback"

C4_Witness ==
    /\ raised_at = "svg_draw"
    /\ idx = Len(svg_gdf.rows)
    /\ svg_return = "fallback"
    /\ FallbackCalls = 1

\* C5: a call whose frame has no drawable geometry, and in which nothing
\* raised, ends with "nothing to draw": no error, no SVG file, no fallback;
\* and rows of other kinds never make a call fall back or fail
C5_NothingToDraw ==
    (SvgEnded /\ raised_at = "none") =>
        /\ Drawable(data) = <<>> <=> svg_return = "nothing"
        /\ svg_return = "nothing" => ~svg_saved
        /\ FallbackCalls = 0
        /\ error = "none"
        /\ \A i \in 1..Len(svg_gdf.rows) :
              svg_gdf.rows[i].type \in
                  {"LineString", "MultiLineString", "Polygon", "MultiPolygon"}

C5_Witness ==
    /\ svg_return = "nothing"
    /\ Len(data.rows) > 0
    /\ pc = "ask"

\* the images of the bounding box's corners under the coordinate mapping in
\* use: <<top-left, bottom-left, top-right, bottom-right>>
Corners ==
    << transform_coords(<<bounds[1], bounds[4]>>, bounds[1], bounds[4], scale, svg_gdf.unit),
       transform_coords(<<bounds[1], bounds[2]>>, bounds[1], bounds[4], scale, svg_gdf.unit),
       transform_coords(<<bounds[3], bounds[4]>>, bounds[1], bounds[4], scale, svg_gdf.unit),
       transform_coords(<<bounds[3], bounds[2]>>, bounds[1], bounds[4], scale, svg_gdf.unit) >>

\* C6 (as claimed): the four corners of the bounding box map to the four
\* corners of the margin-bounded canvas
C6_CornersToCorners ==
    pc = "svg_draw" =>
        Corners = << <<<<40, 1>>, <<40, 1>>>>, <<<<40, 1>>, <<960, 1>>>>,
                     <<<<960, 1>>, <<40, 1>>>>, <<<<960, 1>>, <<960, 1>>>> >>

\* C6 (amended): (minX, maxY) maps to (margin, margin); the opposite corner
\* maps to (margin + width*scale, margin + height*scale), which is inside
\* the canvas and reaches canvas - margin on the axis of the larger extent
\* (on both exactly when width = height)
C6_CornersAmended ==
    pc = "svg_draw" =>
        Bind(Corners, LAMBDA c :
            /\ c[1] = <<<<40, 1>>, <<40, 1>>>>
            /\ c[2] = <<<<40, 1>>, c[4][2]>>
            /\ c[3] = <<c[4][1], <<40, 1>>>>
            /\ c[4][1] = RatAddInt(Rat(Width(bounds) * scale[1], svg_gdf.unit * scale[2]), 40)
            /\ c[4][2] = RatAddInt(Rat(Height(bounds) * scale[1], svg_gdf.unit * scale[2]), 40)
            /\ RatLeq(c[4][1], <<960, 1>>) /\ RatLeq(c[4][2], <<960, 1>>)
            /\ Width(bounds) >= Height(bounds) <=> c[4][1] = <<960, 1>>
            /\ Height(bounds) >= Width(bounds) <=> c[4][2] = <<960, 1>>)

C6_Witness ==
    /\ pc = "svg_draw"
    /\ Width(bounds) > Height(bounds)
    /\ data_type = "pedestrian"

\* the parts of a row that become polylines: every part of a polygonal row
\* (its exterior ring), every part with more than one point of a lineal row
DrawnParts(f) ==
    IF IsLineal(f.type) THEN SelectSeq(f.parts, LAMBDA p : Len(p.coords) > 1)
    ELSE f.parts

\* C7 (as claimed): a saved drawing has as many polylines as the frame has
\* drawable features
C7_OnePolylinePerFeature ==
    svg_return = "saved" => Len(svg_file) = Len(Drawable(data))

\* C7 (amended): a saved drawing holds, row by row and part by part, one
\* polyline for each line with more than one point, for each such part of a
\* multi-line, for each polygon and for each member polygon of a
\* multi-polygon; a polygon's polyline is its exterior ring and no interior
\* ring is drawn
C7_OnePolylinePerPart ==
    svg_return = "saved" =>
        Bind(Flatten([i \in 1..Len(svg_gdf.rows) |-> DrawnParts(svg_gdf.rows[i])]),
             LAMBDA parts :
                /\ [i \in 1..Len(svg_gdf.rows) |-> svg_gdf.rows[i].id]
                     = [i \in 1..Len(Drawable(data)) |-> Drawable(data)[i].id]
                /\ Len(svg_file) = Len(parts)
                /\ Len(svg_file) >= Len(Drawable(data))
                /\ \A j \in 1..Len(parts) :
                      svg_file[j] = Polyline(parts[j].coords, bounds[1], bounds[4],
                                             scale, svg_gdf.unit))

C7_Witness ==
    /\ svg_return = "saved"
    /\ Len(svg_file) > Len(Drawable(data))
    /\ \E i \in 1..Len(svg_gdf.rows) : svg_gdf.rows[i].parts[1].holes # <<>>

\* row i of `after` is row i of `before` moved by
\* (its centroid - the mean of the centroids) * 0.2
ShiftedByFifth(before, after) ==
    Bind3(Centroids(before), Len(before.rows), after.unit, LAMBDA cs, n, u :
        Bind(LcmSeq([i \in 1..n |-> cs[i][3]]), LAMBDA L :
            Bind(CentroidSum(cs, L), LAMBDA g :
                /\ Len(after.rows) = n
                /\ \A i \in 1..n :
                      Bind2(n * cs[i][1] * (L \div cs[i][3]) - g[1],
                            n * cs[i][2] * (L \div cs[i][3]) - g[2],
                            LAMBDA dx, dy :
                                AffineCoords(after.rows[i], 5 * n * L, 0, 0, 1)
                                = AffineCoords(before.rows[i], u * 5 * n * L,
                                               u * dx, u * dy, 1)))))

\* the frame export_to_svg was given, without the rows it cannot draw
Kept == [data EXCEPT !.rows = Drawable(data)]

\* C8: the shift is applied exactly to pedestrian data, moves every
\* geometry by (centroid - mean of centroids) * 0.2, and the minx, maxy and
\* scale that map the drawn coordinates are those of the shifted geometry
C8_SpreadBeforeTransform ==
    (pc \in {"svg_drawing", "svg_draw"} \/ svg_return = "saved") =>
        /\ data_type = "traffic" => svg_gdf = Kept
        /\ data_type = "pedestrian" => ShiftedByFifth(Kept, svg_gdf)
        /\ bounds = TotalBounds(svg_gdf)
        /\ scale = ScaleFor(TotalBounds(svg_gdf), svg_gdf.unit)
        /\ svg_return = "saved" =>
              svg_file = Flatten([i \in 1..Len(svg_gdf.rows) |->
                            RowPolylines(svg_gdf.rows[i], TotalBounds(svg_gdf)[1],
                                         TotalBounds(svg_gdf)[4], scale, svg_gdf.unit)])

C8_Witness ==
    /\ svg_return = "saved"
    /\ data_type = "pedestrian"
    /\ svg_gdf # Kept
    /\ Width(bounds) * Height(TotalBounds(Kept)) # Height(bounds) * Width(TotalBounds(Kept))

\* C9 (as claimed): the frame the except clause hands to export_to_html is
\* the frame export_to_svg was called with
C9_FallbackGetsOriginal ==
    \A i \in 1..Len(html_calls) :
        html_calls[i].by = "export_to_svg" => html_calls[i].gdf = data

\* C10: every coordinate of every polyline lies between margin and
\* canvas - margin on both axes
C10_InsideMargins ==
    \A j \in 1..Len(dwg) :
        \A i \in 1..Len(dwg[j]) :
            /\ RatLeq(<<40, 1>>, dwg[j][i][1]) /\ RatLeq(dwg[j][i][1], <<960, 1>>)
            /\ RatLeq(<<40, 1>>, dwg[j][i][2]) /\ RatLeq(dwg[j][i][2], <<960, 1>>)

C10_Witness ==
    /\ svg_return = "saved"
    /\ svg_file = dwg
    /\ data_type = "pedestrian"
    /\ svg_gdf # Kept
    /\ Len(dwg) >= 2
    /\ Width(bounds) # Height(bounds)

\* sanity: the recomputed extent is never zero where the scale is derived
ExtentPositive ==
    pc \in {"svg_scale", "svg_spread", "svg_drawing", "svg_draw"} =>
        Width(bounds) > 0 /\ Height(bounds) > 0

====
